---- MODULE Spec2Model ----
(***************************************************************************)
(* Model of panel/pane/vtk/vtk.py: the VTK pane (render-window             *)
(* synchronisation through a SynchronizationContext), the VTKVolume        *)
(* subsampler and the VTKJS pane.                                          *)
(*                                                                         *)
(* Three specifications share the module, one per pane class:              *)
(*   Spec        the VTK pane        (_get_model, _update, _cleanup)       *)
(*   SpecExport  the VTK pane up to export_scene                           *)
(*   SpecDeliver the VTK pane with _update split at its two deliveries     *)
(*   SpecVolume  VTKVolume._subsample_array                                *)
(*   SpecSlice   VTKVolume._update and the slice messages                  *)
(*   SpecVTKJS   the VTKJS pane      (_get_model, _update, export_vtkjs)   *)
(* panel.pane.vtk.synchronizable_serializer is not part of the sources;    *)
(* its SynchronizationContext is modelled from the specification (3, 4.1,  *)
(* 4.2, 4.3).  Quotients are kept exact: floating rounding is not modelled.*)
(***************************************************************************)
EXTENDS Integers, Sequences, FiniteSets, TLC

\* ---------------------------------------------------------------- bounds
MaxProps == 2       \* view-prop instances that can be put in the renderer
MaxKeys == 2        \* distinct array contents (content hash = cache key)

Props == 1..MaxProps
Keys == 1..MaxKeys
RenWin == 0         \* the render-window instance, as an object of the graph
NoRoot == 0         \* root=None in _get_model: the model is its own root
ExtRoot == 1        \* a root model that is not the pane's model (a layout)
FirstUid == 2       \* identifiers minted for models and contexts start here
NumberOfLayers == 1 \* what a vtkRenderWindow reports for GetNumberOfLayers

VARIABLES
    \* ---- VTK pane
    object,         \* self.object: [props : Props -> Keys \cup {0}] (0: not in the renderer)
    contexts,       \* self._contexts : model id -> SynchronizationContext
    models,         \* self._models : root ref id -> model id
    plots,          \* the VTKSynchronizedPlot models: id -> [scene, arrays, arrays_processed]
    nextUid,        \* make_globally_unique_id counter
    dirty,          \* model ids whose scene was mutated since their last serialization
    cleaned,        \* model ids whose root went through _cleanup
    last,           \* what the last handler did (history)
    \* ---- VTKVolume
    volume,         \* the array, the pane's spacing and max_data_size, scipy present
    sub,            \* _subsample_array: [pc, shape, spacing] (spacing as fractions)
    dimensions,     \* _orginal_dimensions, _subsample_dimensions and the slice params
    msg,            \* the slice message _process_param_change gave last
    \* ---- VTKJS pane
    jsObject,       \* self.object: 0 (None) or a .vtkjs source
    vtkjs,          \* self._vtkjs: 0 (None) or the bytes cached
    jsData,         \* the VTKJSPlot models: id -> data
    exported,       \* the file export_vtkjs wrote: 0 (none) or its bytes
    jsLast          \* what the last VTKJS handler did (history)

vtkVars == <<object, contexts, models, plots, nextUid,
             dirty, cleaned, last>>
volVars == <<volume, sub, dimensions, msg>>
jsVars == <<jsObject, vtkjs, jsData, exported, jsLast>>

vars == <<vtkVars, volVars, jsVars>>

\* ------------------------------------------------------------- helpers
Max(a, b) == IF a >= b THEN a ELSE b
Range(f) == {f[x] : x \in DOMAIN f}
Restrict(f, S) == [x \in S |-> f[x]]

RECURSIVE SetToSeq(_)
SetToSeq(S) ==
    IF S = {} THEN <<>>
    ELSE LET x == CHOOSE y \in S : \A z \in S : y <= z
         IN <<x>> \o SetToSeq(S \ {x})

Occurrences(s, x) == Cardinality({i \in DOMAIN s : s[i] = x})

\* ------------------------------------- SynchronizationContext (from the spec)
\* 4.1 getOrAssignId: the identifier recorded for the instance, else a new
\* one minted from the registry's counter.  Returns the registry afterwards
\* and the identifier.
GetReferenceId(ctx, o) ==
    IF o \in DOMAIN ctx.ids
    THEN [ctx |-> ctx, id |-> ctx.ids[o]]
    ELSE [ctx |-> [ctx EXCEPT !.ids = ctx.ids @@ (o :> <<ctx.idRoot, ctx.nextId>>),
                              !.nextId = ctx.nextId + 1],
          id |-> <<ctx.idRoot, ctx.nextId>>]

\* 3 CacheEntry: the reference count is the number of live scene objects that
\* point at the entry at walk time, so a walk counts the references anew.
Recount(cache) == [k \in DOMAIN cache |-> 0]

\* 4.2 put: an existing entry gets one more reference, a new one starts at 1.
Put(cache, k) ==
    IF k \in DOMAIN cache
    THEN [cache EXCEPT ![k] = cache[k] + 1]
    ELSE cache @@ (k :> 1)

\* 4.2 markLiveSet: tracked keys absent from the live set lose their reference;
\* an entry at zero is evictable.
MarkLiveSet(cache, live) ==
    [k \in DOMAIN cache |-> IF k \in live THEN cache[k] ELSE Max(cache[k] - 1, 0)]

\* 4.2 releaseEvictable: purges the zero-reference entries, returns their keys.
ReleaseEvictable(cache) ==
    LET gone == {k \in DOMAIN cache : cache[k] = 0}
    IN [cache |-> Restrict(cache, DOMAIN cache \ gone), keys |-> SetToSeq(gone)]

\* getCachedDataArray(name, compression=True): the compressed payload of a key.
GetCachedDataArray(cache, k) == <<"zip", k>>

\* 4.3 the walk: renderer -> its view-props in enumeration order -> each
\* prop's array, pushed through the cache; then markLiveSet with the keys
\* touched.  The emitted tree carries the window's own layer count.
RECURSIVE VisitProps(_, _, _)
VisitProps(ctx, renwin, p) ==
    IF p > MaxProps THEN ctx
    ELSE IF renwin.props[p] = 0 THEN VisitProps(ctx, renwin, p + 1)
    ELSE LET r == GetReferenceId(ctx, p)
             c == [r.ctx EXCEPT !.cache = Put(r.ctx.cache, renwin.props[p])]
         IN VisitProps(c, renwin, p + 1)

LiveProps(renwin) == {p \in Props : renwin.props[p] # 0}
LiveKeys(renwin) == {renwin.props[p] : p \in LiveProps(renwin)}

SerializeInstance(renwin, ctx) ==
    LET r == GetReferenceId(ctx, RenWin)
        c == VisitProps([r.ctx EXCEPT !.cache = Recount(r.ctx.cache)], renwin, 1)
        live == LiveKeys(renwin)
    IN [ctx |-> [c EXCEPT !.cache = MarkLiveSet(c.cache, live)],
        scene |-> [id |-> r.id,
                   numberOfLayers |-> NumberOfLayers,
                   arrays |-> live]]

\* rws.SynchronizationContext(id_root=...)
NewContext(idRoot) ==
    [idRoot |-> idRoot, ids |-> <<>>, nextId |-> 1, cache |-> <<>>]

\* --------------------------------------------------------------- VTK pane
\* VTK._serialize_ren_win(ren_win, context, exclude_arrays)
SerializeRenWin_NoExclude(renwin, ctx, exclude) ==
    LET w == SerializeInstance(renwin, ctx)
    IN [ctx |-> w.ctx,
        scene |-> [w.scene EXCEPT !.numberOfLayers = 2],
        arrays |-> [k \in DOMAIN w.ctx.cache |-> GetCachedDataArray(w.ctx.cache, k)]]

SerializeRenWin_RawLayers(renwin, ctx, exclude) ==
    LET w == SerializeInstance(renwin, ctx)
    IN [ctx |-> w.ctx,
        scene |-> w.scene,
        arrays |-> [k \in DOMAIN w.ctx.cache \ exclude |->
                        GetCachedDataArray(w.ctx.cache, k)]]

SerializeRenWin(renwin, ctx, exclude) ==
    LET w == SerializeInstance(renwin, ctx)
    IN [ctx |-> w.ctx,
        scene |-> [w.scene EXCEPT !.numberOfLayers = 2],
        arrays |-> [k \in DOMAIN w.ctx.cache \ exclude |->
                        GetCachedDataArray(w.ctx.cache, k)]]

\* the other panes, not constructed
VolumeIdle ==
    /\ volume = <<>>
    /\ sub = <<>>
    /\ dimensions = <<>>
    /\ msg = <<>>

JsIdle ==
    /\ jsObject = 0
    /\ vtkjs = 0
    /\ jsData = <<>>
    /\ exported = 0
    /\ jsLast = <<>>

NoLast ==
    [op |-> "init", model |-> 0, scene |-> <<>>, arrays |-> <<>>,
     exclude |-> {}, cacheKeys |-> {}, dropped |-> {}, released |-> <<>>,
     notified |-> {}, unchanged |-> FALSE, ackedAll |-> FALSE,
     archive |-> <<>>]

Init ==
    /\ object = [props |-> [p \in Props |-> 0]]
    /\ contexts = <<>>
    /\ models = <<>>
    /\ plots = <<>>
    /\ nextUid = FirstUid
    /\ dirty = {}
    /\ cleaned = {}
    /\ last = NoLast
    /\ VolumeIdle
    /\ JsIdle

\* SyncHelpers.add_actors: a view-prop holding an array is put in the renderer.
AddActor(p, k) ==
    /\ object.props[p] = 0
    /\ object' = [object EXCEPT !.props[p] = k]
    /\ dirty' = DOMAIN plots
    /\ last' = [NoLast EXCEPT !.op = "other"]
    /\ UNCHANGED <<contexts, models, plots, nextUid, cleaned,
                   volVars, jsVars>>

\* SyncHelpers.remove_actors
RemoveActor(p) ==
    /\ object.props[p] # 0
    /\ object' = [object EXCEPT !.props[p] = 0]
    /\ dirty' = DOMAIN plots
    /\ last' = [NoLast EXCEPT !.op = "other"]
    /\ UNCHANGED <<contexts, models, plots, nextUid, cleaned,
                   volVars, jsVars>>

\* VTK._get_model(doc, root, parent, comm).  The pane is rendered in one view
\* per behaviour: every model gets a context of its own (l.235, l.248), so
\* views do not interact.
GetModel(root) ==
    LET mid == nextUid
        ctx0 == NewContext(nextUid + 1)
        s == SerializeRenWin(object, ctx0, {})
        ref == IF root = NoRoot THEN mid ELSE root
    IN /\ nextUid = FirstUid
       /\ ref \notin DOMAIN models
       /\ plots' = plots @@ (mid :> [scene |-> s.scene, arrays |-> s.arrays,
                                     arrays_processed |-> {}])
       /\ contexts' = contexts @@ (mid :> s.ctx)
       /\ models' = models @@ (ref :> mid)
       /\ nextUid' = nextUid + 2
       /\ dirty' = dirty \ {mid}
       /\ last' = [NoLast EXCEPT !.op = "get_model", !.model = mid,
                                 !.scene = s.scene, !.arrays = s.arrays,
                                 !.cacheKeys = DOMAIN s.ctx.cache]
       /\ UNCHANGED <<object, cleaned,
                   volVars, jsVars>>

\* VTK._update(model), with the context it serializes into and whether
\* checkForArraysToRelease is called
UpdateWith(m, ctx, release) ==
    LET s == SerializeRenWin(object, ctx, plots[m].arrays_processed)
        r == IF release THEN ReleaseEvictable(s.ctx.cache)
             ELSE [cache |-> s.ctx.cache, keys |-> <<>>]
    IN /\ m \in Range(models)
       /\ contexts' = [contexts EXCEPT ![m] = [s.ctx EXCEPT !.cache = r.cache]]
       /\ plots' = [plots EXCEPT ![m].arrays = s.arrays, ![m].scene = s.scene]
       /\ dirty' = dirty \ {m}
       /\ last' = [op |-> "update", model |-> m, scene |-> s.scene,
                   arrays |-> s.arrays, exclude |-> plots[m].arrays_processed,
                   cacheKeys |-> DOMAIN s.ctx.cache,
                   dropped |-> DOMAIN contexts[m].cache \ LiveKeys(object),
                   released |-> r.keys,
                   notified |-> {},
                   unchanged |-> m \notin dirty,
                   ackedAll |-> DOMAIN plots[m].arrays \subseteq plots[m].arrays_processed,
                   archive |-> <<>>]
       /\ UNCHANGED <<object, models, nextUid, cleaned,
                   volVars, jsVars>>

Update_NoRelease(m) == UpdateWith(m, contexts[m], FALSE)

Update_NewContext(m) == UpdateWith(m, NewContext(contexts[m].idRoot), TRUE)

Update(m) == UpdateWith(m, contexts[m], TRUE)

\* VTK._cleanup(root)
Cleanup(ref) ==
    /\ ref \in DOMAIN models
    /\ contexts' = Restrict(contexts, DOMAIN contexts \ {ref})
    /\ models' = Restrict(models, DOMAIN models \ {ref})
    /\ plots' = Restrict(plots, DOMAIN plots \ {models[ref]})
    /\ cleaned' = cleaned \cup {models[ref]}
    /\ dirty' = dirty \ {models[ref]}
    /\ last' = [NoLast EXCEPT !.op = "cleanup", !.model = models[ref]]
    /\ UNCHANGED <<object, nextUid,
                   volVars, jsVars>>

\* the zf.writestr calls of export_scene, in order: 'index.json' with the
\* scene, then 'data/<name>' with the uncompressed bytes of each cached array
ZipEntries_SceneOnly(scene, cache) ==
    <<[dir |-> "", name |-> "index.json", content |-> scene]>>

ZipEntries(scene, cache) ==
    LET names == SetToSeq(DOMAIN cache)
    IN <<[dir |-> "", name |-> "index.json", content |-> scene]>> \o
       [i \in 1..Len(names) |->
           [dir |-> "data", name |-> names[i], content |-> <<"raw", names[i]>>]]

\* VTK.export_scene(filename): get_root() makes a new root model of the pane
\* through _get_model(doc, comm=comm), which stays in _models and _contexts;
\* the archive is written from that model's scene and context.  One export
\* per behaviour, after the render.
ExportScene ==
    LET root == nextUid
        s == SerializeRenWin(object, NewContext(nextUid + 1), {})
    IN /\ nextUid = FirstUid + 2
       /\ plots' = plots @@ (root :> [scene |-> s.scene, arrays |-> s.arrays,
                                      arrays_processed |-> {}])
       /\ contexts' = contexts @@ (root :> s.ctx)
       /\ models' = models @@ (root :> root)
       /\ nextUid' = nextUid + 2
       /\ dirty' = dirty \ {root}
       /\ last' = [NoLast EXCEPT !.op = "export", !.model = root,
                                 !.scene = s.scene, !.arrays = s.arrays,
                                 !.cacheKeys = DOMAIN s.ctx.cache,
                                 !.archive = ZipEntries(s.scene, s.ctx.cache)]
       /\ UNCHANGED <<object, cleaned,
                   volVars, jsVars>>

\* the client reports the arrays it has processed (model.arrays_processed)
ClientProcessed(m) ==
    /\ m \in DOMAIN plots
    /\ ~(DOMAIN plots[m].arrays \subseteq plots[m].arrays_processed)
    /\ plots' = [plots EXCEPT ![m].arrays_processed = @ \cup DOMAIN plots[m].arrays]
    /\ last' = [NoLast EXCEPT !.op = "other"]
    /\ UNCHANGED <<object, contexts, models, nextUid, dirty,
                   cleaned,
                   volVars, jsVars>>

Next ==
    \/ \E p \in Props, k \in Keys : AddActor(p, k)
    \/ \E p \in Props : RemoveActor(p)
    \/ \E root \in {NoRoot, ExtRoot} : GetModel(root)
    \/ \E m \in DOMAIN plots : Update(m)
    \/ \E ref \in DOMAIN models : Cleanup(ref)
    \/ \E m \in DOMAIN plots : ClientProcessed(m)

Spec == Init /\ [][Next]_vars

\* Behaviours of the pane followed up to its export: the root that get_root
\* makes stays in the pane's tables, where later handlers treat it as the
\* rendered model is treated under Spec.  The export reads neither
\* arrays_processed nor the rendered model's context.
NotExported == nextUid < FirstUid + 4

NextExport ==
    \/ NotExported /\ \E p \in Props, k \in Keys : AddActor(p, k)
    \/ NotExported /\ \E p \in Props : RemoveActor(p)
    \/ NotExported /\ \E root \in {NoRoot, ExtRoot} : GetModel(root)
    \/ NotExported /\ \E m \in DOMAIN plots : Update(m)
    \/ NotExported /\ \E ref \in DOMAIN models : Cleanup(ref)
    \/ ExportScene

SpecExport == Init /\ [][NextExport]_vars

\* VTK._update(model) up to the first delivery (l.272-279): the walk and the
\* payloads, the release, model.update(arrays=arrays); the scene is held
UpdateArrays_SceneFirst(m) ==
    LET s == SerializeRenWin(object, contexts[m], plots[m].arrays_processed)
        r == ReleaseEvictable(s.ctx.cache)
    IN /\ m \in Range(models)
       /\ contexts' = [contexts EXCEPT ![m] = [s.ctx EXCEPT !.cache = r.cache]]
       /\ plots' = [plots EXCEPT ![m].scene = s.scene]
       /\ last' = [NoLast EXCEPT !.op = "arrays_delivered", !.model = m,
                                 !.scene = s.scene, !.arrays = s.arrays,
                                 !.cacheKeys = DOMAIN s.ctx.cache,
                                 !.released = r.keys]
       /\ UNCHANGED <<object, models, nextUid, dirty, cleaned,
                   volVars, jsVars>>

UpdateArrays(m) ==
    LET s == SerializeRenWin(object, contexts[m], plots[m].arrays_processed)
        r == ReleaseEvictable(s.ctx.cache)
    IN /\ m \in Range(models)
       /\ contexts' = [contexts EXCEPT ![m] = [s.ctx EXCEPT !.cache = r.cache]]
       /\ plots' = [plots EXCEPT ![m].arrays = s.arrays]
       /\ last' = [NoLast EXCEPT !.op = "arrays_delivered", !.model = m,
                                 !.scene = s.scene, !.arrays = s.arrays,
                                 !.cacheKeys = DOMAIN s.ctx.cache,
                                 !.released = r.keys]
       /\ UNCHANGED <<object, models, nextUid, dirty, cleaned,
                   volVars, jsVars>>

\* the second delivery, model.update(scene=scene) (l.280)
UpdateScene(m) ==
    /\ last.op = "arrays_delivered"
    /\ last.model = m
    /\ plots' = [plots EXCEPT ![m].scene = last.scene]
    /\ dirty' = dirty \ {m}
    /\ last' = [NoLast EXCEPT !.op = "scene_delivered", !.model = m]
    /\ UNCHANGED <<object, contexts, models, nextUid, cleaned,
                   volVars, jsVars>>

\* _update runs to its end before the pane handles anything else
Updating == last.op = "arrays_delivered"

NextDeliver ==
    \/ ~Updating /\ \E p \in Props, k \in Keys : AddActor(p, k)
    \/ ~Updating /\ \E p \in Props : RemoveActor(p)
    \/ ~Updating /\ GetModel(NoRoot)
    \/ ~Updating /\ \E m \in DOMAIN plots : UpdateArrays(m)
    \/ \E m \in DOMAIN plots : UpdateScene(m)
    \/ ~Updating /\ \E m \in DOMAIN plots : ClientProcessed(m)

SpecDeliver == Init /\ [][NextDeliver]_vars

\* -------------------------------------------------------------- VTKVolume
MaxDim == 4         \* longest axis of the array
MaxSpacing == 2     \* largest voxel spacing
MaxBudget == 8      \* largest max_data_size, counted in bytes

Axes == 1..3
ItemSize == 1       \* bytes per element of the array (uint8)

Frac(n, d) == [n |-> n, d |-> d]
FracEq(a, b) == a.n * b.d = b.n * a.d

Cube(x) == x * x * x

\* array.nbytes
NBytes(shape) == shape[1] * shape[2] * shape[3] * ItemSize

\* int(o_s / dim_ratio) with dim_ratio = cbrt(nbytes / max_data_size): the
\* largest m with (m * dim_ratio)^3 <= o_s^3
MaxShapeAxis(o, nbytes, budget) ==
    CHOOSE m \in 0..(o * budget) :
        /\ Cube(m) * nbytes <= Cube(o) * budget
        /\ Cube(m + 1) * nbytes > Cube(o) * budget

CeilDiv(a, b) == (a + b - 1) \div b
RoundDiv(a, b) == (2 * a + b) \div (2 * b)

\* scipy.ndimage zoom(array, zoom=1/d_f, order=0): axis length round(o * zoom)
ZoomAxis(o, m) == RoundDiv(o * m, Max(o, m))

\* array[::int(ceil(d_f))]: every k-th sample, k = ceil(max(o, m) / m)
StrideAxis(o, m) == CeilDiv(o, CeilDiv(Max(o, m), m))

Raised == [pc |-> "raised", shape |-> <<>>, spacing |-> <<>>]

\* self._sub_spacing = tuple(e / (s - 1) ...) with extent (o_s - 1) * s
SubSpacing_PerSample(shape, spacing, subShape) ==
    [a \in Axes |-> Frac(shape[a] * spacing[a], subShape[a])]

SubSpacing(shape, spacing, subShape) ==
    [a \in Axes |-> Frac((shape[a] - 1) * spacing[a], subShape[a] - 1)]

\* VTKVolume._subsample_array(array)
SubsampleArray(v) ==
    LET shape == v.shape
        max_shape == [a \in Axes |-> MaxShapeAxis(shape[a], NBytes(shape), v.max_data_size)]
        subShape == [a \in Axes |-> IF v.scipy THEN ZoomAxis(shape[a], max_shape[a])
                                    ELSE StrideAxis(shape[a], max_shape[a])]
    IN IF \E a \in Axes : max_shape[a] = 0
       THEN Raised                          \* ZeroDivisionError, l.575
       ELSE IF \E a \in Axes : Max(shape[a], max_shape[a]) > max_shape[a]
       THEN IF \E a \in Axes : subShape[a] = 1
            THEN Raised                     \* ZeroDivisionError, l.585
            ELSE [pc |-> "returned", shape |-> subShape,
                  spacing |-> SubSpacing(shape, v.spacing, subShape)]
       ELSE [pc |-> "returned", shape |-> shape,
             spacing |-> [a \in Axes |-> Frac(v.spacing[a], 1)]]

VtkIdle ==
    /\ object = <<>>
    /\ contexts = <<>>
    /\ models = <<>>
    /\ plots = <<>>
    /\ nextUid = FirstUid
    /\ dirty = {}
    /\ cleaned = {}
    /\ last = <<>>

\* VTKVolume.__init__: self._sub_spacing = self.spacing
InitVolume ==
    /\ VtkIdle
    /\ JsIdle
    /\ \E shape \in [Axes -> 1..MaxDim], spacing \in [Axes -> 1..MaxSpacing],
          budget \in 1..MaxBudget, scipy \in BOOLEAN :
          volume = [shape |-> shape, spacing |-> spacing,
                    max_data_size |-> budget, scipy |-> scipy]
    /\ sub = [pc |-> "start", shape |-> <<>>,
              spacing |-> [a \in Axes |-> Frac(volume.spacing[a], 1)]]
    /\ dimensions = <<>>
    /\ msg = <<>>

Subsample ==
    /\ sub.pc = "start"
    /\ sub' = SubsampleArray(volume)
    /\ UNCHANGED <<volume, dimensions, msg, vtkVars, jsVars>>

NextVolume == Subsample

SpecVolume == InitVolume /\ [][NextVolume]_vars

\* ------------------------------------------------- VTKVolume: slice params
Reversed(t) == [a \in Axes |-> t[4 - a]]

\* np.round(n / d) for n >= 0, d > 0: to the nearest integer, a half to the
\* even one
Round(n, d) ==
    LET q == n \div d
        r == n % d
    IN IF 2 * r < d THEN q
       ELSE IF 2 * r > d THEN q + 1
       ELSE IF q % 2 = 0 THEN q ELSE q + 1

\* sub_array.flags['F_CONTIGUOUS']: the zoomed array is a new C-ordered one
\* and the strided one a view that skips elements; the array itself is
\* F-contiguous when made in that order or when at most one axis is longer
\* than 1.  A reduced array has no axis of length 1 (l.585).
FContiguous(v, subsampled) ==
    IF subsampled THEN FALSE
    ELSE v.order = "F" \/ Cardinality({a \in Axes : v.shape[a] > 1}) <= 1

\* _volume_from_array(sub_array)['dims']
VolumeDims(v, subShape) ==
    IF FContiguous(v, subShape # v.shape) THEN subShape ELSE Reversed(subShape)

\* VTKVolume.__init__ on an ndarray with the default spacing
InitSlice ==
    /\ VtkIdle
    /\ JsIdle
    /\ \E shape \in [Axes -> 1..MaxDim], budget \in 1..MaxBudget,
          scipy \in BOOLEAN, order \in {"C", "F"} :
          volume = [shape |-> shape, spacing |-> [a \in Axes |-> 1],
                    max_data_size |-> budget, scipy |-> scipy, order |-> order]
    /\ sub = [pc |-> "start", shape |-> <<>>,
              spacing |-> [a \in Axes |-> Frac(volume.spacing[a], 1)]]
    /\ dimensions = <<>>
    /\ msg = <<>>

\* VTKVolume._update(): the volume data, the two dimension tuples, the
\* bounds (0, D - 1) of each slice param and its value (D - 1) // 2
VolumeUpdate ==
    LET r == SubsampleArray(volume)
    IN /\ sub.pc = "start"
       /\ sub' = r
       /\ dimensions' =
             IF r.pc = "returned"
             THEN [original |-> volume.shape,
                   subsample |-> VolumeDims(volume, r.shape),
                   slice |-> [a \in Axes |-> (volume.shape[a] - 1) \div 2]]
             ELSE dimensions
       /\ UNCHANGED <<volume, msg, vtkVars, jsVars>>

\* VTKVolume._process_param_change({slice_<a>: v}) for v in the param's bounds
ProcessParamChange(a, v) ==
    /\ dimensions # <<>>
    /\ v \in 0..(dimensions.original[a] - 1)
    /\ msg' = [axis |-> a, v |-> v,
               index |-> Round(v * dimensions.subsample[a], dimensions.original[a])]
    /\ UNCHANGED <<volume, sub, dimensions, vtkVars, jsVars>>

NextSlice ==
    \/ VolumeUpdate
    \/ \E a \in Axes, v \in 0..(MaxDim - 1) : ProcessParamChange(a, v)

SpecSlice == InitSlice /\ [][NextSlice]_vars

\* ------------------------------------------------------------------ VTKJS
MaxSources == 2     \* distinct .vtkjs sources (local files, URLs)
MaxJsModels == 2    \* models rendered from the pane

Sources == 1..MaxSources
FirstContent == 10  \* bytes are numbered from here, apart from sources and None
EmptyFile == 1      \* a file opened for writing and left empty

\* the bytes a source holds
Content(src) == FirstContent + src

\* base64encode(vtkjs) if vtkjs is not None else vtkjs (<<>>: data is None)
Base64Data(bytes) == IF bytes = 0 THEN <<>> ELSE <<"base64", bytes>>

\* VTKJS._get_vtkjs(): cached is self._vtkjs, ok tells whether the read of the
\* source succeeds.  Gives self._vtkjs afterwards, the value returned, the
\* error raised and whether a read was attempted.
GetVtkjs_Swallow(cached, obj, ok) ==
    IF cached = 0 /\ obj # 0
    THEN IF ok
         THEN [cache |-> Content(obj), value |-> Content(obj), err |-> "none",
               read |-> TRUE]
         ELSE [cache |-> 0, value |-> 0, err |-> "none", read |-> TRUE]
    ELSE [cache |-> cached, value |-> cached, err |-> "none", read |-> FALSE]

GetVtkjs(cached, obj, ok) ==
    IF cached = 0 /\ obj # 0
    THEN IF ok
         THEN [cache |-> Content(obj), value |-> Content(obj), err |-> "none",
               read |-> TRUE]
         ELSE [cache |-> cached, value |-> 0, err |-> "io", read |-> TRUE]
    ELSE [cache |-> cached, value |-> cached, err |-> "none", read |-> FALSE]

JsDone(op, m, r, ok) ==
    [op |-> op, model |-> m, err |-> r.err, readFailed |-> r.read /\ ~ok]

\* VTKJS.__init__: self._vtkjs = None; the object is any source or None
InitVTKJS ==
    /\ VtkIdle
    /\ VolumeIdle
    /\ jsObject \in Sources \cup {0}
    /\ vtkjs = 0
    /\ jsData = <<>>
    /\ exported = 0
    /\ jsLast = [op |-> "init", model |-> 0, err |-> "none", readFailed |-> FALSE]

\* VTKJS._get_model(doc, root, parent, comm)
JsGetModel(ok) ==
    LET r == GetVtkjs(vtkjs, jsObject, ok)
        m == Cardinality(DOMAIN jsData) + 1
    IN /\ Cardinality(DOMAIN jsData) < MaxJsModels
       /\ vtkjs' = r.cache
       /\ jsData' = IF r.err = "none" THEN jsData @@ (m :> Base64Data(r.value))
                    ELSE jsData
       /\ jsLast' = JsDone("get_model", IF r.err = "none" THEN m ELSE 0, r, ok)
       /\ UNCHANGED <<jsObject, exported, vtkVars, volVars>>

\* VTKJS._update(model)
JsUpdate(m, ok) ==
    LET r == GetVtkjs(0, jsObject, ok)
    IN /\ m \in DOMAIN jsData
       /\ vtkjs' = r.cache
       /\ jsData' = IF r.err = "none" THEN [jsData EXCEPT ![m] = Base64Data(r.value)]
                    ELSE jsData
       /\ jsLast' = JsDone("update", m, r, ok)
       /\ UNCHANGED <<jsObject, exported, vtkVars, volVars>>

\* VTKJS.export_vtkjs(filename): the file is opened, then the bytes are
\* fetched and written; f.write(None) raises TypeError
JsExport(ok) ==
    LET r == GetVtkjs(vtkjs, jsObject, ok)
    IN /\ vtkjs' = r.cache
       /\ exported' = IF r.err = "none" /\ r.value # 0 THEN r.value ELSE EmptyFile
       /\ jsLast' = IF r.err = "none" /\ r.value = 0
                    THEN [JsDone("export", 0, r, ok) EXCEPT !.err = "type"]
                    ELSE JsDone("export", 0, r, ok)
       /\ UNCHANGED <<jsObject, jsData, vtkVars, volVars>>

\* pane.object = o: with _updates set, every model of the pane is updated in
\* turn (models are numbered in the order they were made); the reads of the
\* first nOk models succeed, the next one fails.
JsSetObject(o, nOk) ==
    LET n == Cardinality(DOMAIN jsData)
        fails == nOk < n
        bytes == IF o = 0 THEN 0 ELSE Content(o)
    IN /\ o # jsObject
       /\ nOk \in 0..n
       /\ fails => o # 0
       /\ jsObject' = o
       /\ jsData' = [m \in DOMAIN jsData |->
                        IF m <= nOk THEN Base64Data(bytes) ELSE jsData[m]]
       /\ vtkjs' = IF n = 0 THEN vtkjs ELSE IF fails THEN 0 ELSE bytes
       /\ jsLast' = [op |-> "set_object", model |-> IF fails THEN nOk + 1 ELSE 0,
                     err |-> IF fails THEN "io" ELSE "none", readFailed |-> fails]
       /\ UNCHANGED <<exported, vtkVars, volVars>>

NextVTKJS ==
    \/ \E ok \in BOOLEAN : JsGetModel(ok)
    \/ \E m \in DOMAIN jsData, ok \in BOOLEAN : JsUpdate(m, ok)
    \/ \E ok \in BOOLEAN : JsExport(ok)
    \/ \E o \in Sources \cup {0}, nOk \in 0..MaxJsModels : JsSetObject(o, nOk)

SpecVTKJS == InitVTKJS /\ [][NextVTKJS]_vars

\* ================================================================ claims
Serialized == last.op \in {"get_model", "update"}

\* C1 (as stated): when an update serializes a scene that was not mutated
\* since the previous serialization for the same model, the returned
\* array-payload map is empty.
C1_SecondCallEmpty ==
    (last.op = "update" /\ last.unchanged) => DOMAIN last.arrays = {}

\* C1 (amended): when an update serializes a scene that was not mutated since
\* the previous serialization and the client has reported every array
\* delivered to the model as processed, the returned payload map is empty.
C1_SecondCallEmptyOnceProcessed ==
    (last.op = "update" /\ last.unchanged /\ last.ackedAll)
        => DOMAIN last.arrays = {}

C1_Witness ==
    /\ last.op = "update" /\ last.unchanged /\ last.ackedAll
    /\ last.cacheKeys # {}
    /\ DOMAIN last.arrays = {}

\* C2: the keys of the payload map returned by _serialize_ren_win are exactly
\* the keys of the context's array cache that are not in the exclusion set.
C2_PayloadKeys ==
    Serialized => DOMAIN last.arrays = last.cacheKeys \ last.exclude

C2_Witness ==
    /\ last.op = "update"
    /\ last.exclude \cap last.cacheKeys # {}
    /\ DOMAIN last.arrays # {}

\* C3: the keys an update evicts from the context's cache are passed on to
\* the client model.
C3_EvictedKeysNotified ==
    last.op = "update" => \A k \in Range(last.released) : k \in last.notified

\* C4: after _cleanup(root) the context created for that root is no longer in
\* _contexts, and once every rendered root is cleaned up _contexts is empty.
C4_ContextTornDown ==
    /\ \A m \in cleaned : m \notin DOMAIN contexts
    /\ (cleaned # {} /\ DOMAIN models = {}) => DOMAIN contexts = {}

\* C5: every scene returned by _serialize_ren_win, and so every scene held by
\* a model, reports exactly 2 layers.
C5_TwoLayers ==
    /\ Serialized => last.scene.numberOfLayers = 2
    /\ \A m \in DOMAIN plots : plots[m].scene.numberOfLayers = 2

C5_Witness ==
    /\ last.op = "update"
    /\ Cardinality(LiveProps(object)) = MaxProps
    /\ last.scene.numberOfLayers = 2

\* C6: within a context an instance keeps the identifier it was given, and
\* two distinct instances never share an identifier.
C6_StableDistinctIds ==
    [][\A m \in DOMAIN contexts \cap DOMAIN contexts' :
          /\ \A o \in DOMAIN contexts[m].ids :
                /\ o \in DOMAIN contexts'[m].ids
                /\ contexts'[m].ids[o] = contexts[m].ids[o]
          /\ \A o1, o2 \in DOMAIN contexts'[m].ids :
                o1 # o2 => contexts'[m].ids[o1] # contexts'[m].ids[o2]
          /\ (last'.op = "update" /\ last'.model = m)
                => last'.scene.id = contexts[m].ids[RenWin]]_vars

C6_Witness ==
    /\ last.op = "update" /\ last.unchanged
    /\ Cardinality(DOMAIN contexts[last.model].ids) = MaxProps + 1
    /\ \A o1, o2 \in DOMAIN contexts[last.model].ids :
          o1 # o2 => contexts[last.model].ids[o1] # contexts[last.model].ids[o2]

OverBudget == NBytes(volume.shape) > volume.max_data_size

\* C8 (as stated): for an array over the budget, reduced spacing x reduced
\* sample count equals original spacing x original sample count on each axis.
C8_ExtentBySampleCount ==
    (sub.pc = "returned" /\ OverBudget) =>
        \A a \in Axes :
            FracEq(Frac(sub.spacing[a].n * sub.shape[a], sub.spacing[a].d),
                   Frac(volume.spacing[a] * volume.shape[a], 1))

\* C8 (amended): for an array over the budget that _subsample_array returns,
\* reduced spacing x (reduced sample count - 1) equals original spacing x
\* (original sample count - 1) on each axis.
C8_ExtentBetweenEndSamples ==
    (sub.pc = "returned" /\ OverBudget) =>
        \A a \in Axes :
            FracEq(Frac(sub.spacing[a].n * (sub.shape[a] - 1), sub.spacing[a].d),
                   Frac(volume.spacing[a] * (volume.shape[a] - 1), 1))

C8_Witness ==
    /\ sub.pc = "returned" /\ OverBudget
    /\ \A a \in Axes : 1 < sub.shape[a] /\ sub.shape[a] < volume.shape[a]
    /\ \E a, b \in Axes : volume.spacing[a] # volume.spacing[b]

\* C9: _subsample_array returns for every array and budget, no axis of the
\* result is longer than the input's, and an array within the budget comes
\* back unchanged together with its spacing.
C9_NeverUpsamples ==
    sub.pc # "start" =>
        /\ sub.pc = "returned"
        /\ \A a \in Axes : sub.shape[a] <= volume.shape[a]
        /\ ~OverBudget =>
              /\ sub.shape = volume.shape
              /\ \A a \in Axes : sub.spacing[a] = Frac(volume.spacing[a], 1)

\* C10: when the read of the source fails in _get_vtkjs, the handler raises
\* the I/O error, nothing is cached (_vtkjs is None), no model is added, the
\* data of the model being served is not overwritten, and the conditions under
\* which _get_vtkjs reads again hold.
C10_ReadFailureSurfacedAndRetryable ==
    [][jsLast'.readFailed =>
          /\ jsLast'.err = "io"
          /\ vtkjs' = 0
          /\ jsObject' # 0
          /\ DOMAIN jsData' = DOMAIN jsData
          /\ \A m \in DOMAIN jsData :
                (jsLast'.op # "set_object" \/ m = jsLast'.model)
                    => jsData'[m] = jsData[m]]_vars

C10_Witness ==
    /\ jsLast.readFailed
    /\ jsLast.op = "update"
    /\ jsLast.err = "io"
    /\ jsData[jsLast.model] # <<>>
    /\ jsData[jsLast.model] # Base64Data(Content(jsObject))
    /\ vtkjs = 0

ArchiveEntries(dir) == {i \in DOMAIN last.archive : last.archive[i].dir = dir}

\* C11: export_scene, called after the pane was rendered, writes exactly one
\* text entry, holding the scene of the pane's object as it is now, exactly
\* one entry data/<key> for each key of the cache of the context the scene
\* was serialized into, and nothing else; every array key the exported scene
\* references has its data entry.
C11_ArchiveSceneAndArrays ==
    last.op = "export" =>
        LET cache == contexts[last.model].cache
            index == ArchiveEntries("")
            data == ArchiveEntries("data")
        IN /\ Cardinality(index) = 1
           /\ \A i \in index :
                 /\ last.archive[i].name = "index.json"
                 /\ last.archive[i].content = plots[last.model].scene
                 /\ last.archive[i].content.arrays = LiveKeys(object)
                 /\ \A k \in last.archive[i].content.arrays :
                       \E j \in data : last.archive[j].name = k
           /\ \A k \in DOMAIN cache :
                 Cardinality({j \in data : last.archive[j].name = k}) = 1
           /\ \A j \in data : last.archive[j].name \in DOMAIN cache
           /\ index \cup data = DOMAIN last.archive

C11_Witness ==
    /\ last.op = "export"
    /\ FirstUid \in DOMAIN contexts
    /\ DOMAIN contexts[FirstUid].cache \ LiveKeys(object) # {}
    /\ LiveKeys(object) \ DOMAIN contexts[FirstUid].cache # {}
    /\ Len(last.archive) = 1 + Cardinality(LiveKeys(object))

\* C12: the slice index _process_param_change sends for a slice position
\* within the param's bounds is an index of the subsampled volume: it lies
\* in 0 .. S[a] - 1.
C12_SliceIndexInRange ==
    msg # <<>> =>
        /\ 0 <= msg.index
        /\ msg.index <= dimensions.subsample[msg.axis] - 1

\* what a read of the pane's current object gives (0: the object is None)
CurrentBytes == IF jsObject = 0 THEN 0 ELSE Content(jsObject)

\* C13: the bytes a render or an update places in a model, and the bytes an
\* export writes, are those of the pane's current object, never the cached
\* bytes of an object assigned before.
C13_BytesOfCurrentObject ==
    /\ (jsLast.op \in {"get_model", "update"} /\ jsLast.err = "none")
          => jsData[jsLast.model] = Base64Data(CurrentBytes)
    /\ (jsLast.op = "set_object" /\ jsLast.err = "none")
          => \A m \in DOMAIN jsData : jsData[m] = Base64Data(CurrentBytes)
    /\ (jsLast.op = "export" /\ jsLast.err = "none")
          => exported = CurrentBytes

\* every array key the scene held by model m references was delivered to m
\* or is reported as processed by its client
HoldsReferenced(m, ps) ==
    ps[m].scene.arrays \subseteq DOMAIN ps[m].arrays \cup ps[m].arrays_processed

\* C14: _update walks the scene and collects the payloads, then releases,
\* then delivers the arrays, then the scene; after every step of every
\* handler the scene a model holds references only array keys that were
\* delivered to the model or that its client reported as processed.
C14_ArraysBeforeScene ==
    [][/\ \A m \in DOMAIN plots' : HoldsReferenced(m, plots')
       /\ last'.op = "arrays_delivered" =>
             /\ last.op # "arrays_delivered"
             /\ DOMAIN plots'[last'.model].arrays
                    = last'.cacheKeys \ plots[last'.model].arrays_processed
             /\ last'.scene.arrays \subseteq last'.cacheKeys
             /\ DOMAIN contexts'[last'.model].cache
                    = last'.cacheKeys \ Range(last'.released)
             /\ plots'[last'.model].scene = plots[last'.model].scene
       /\ last'.op = "scene_delivered" =>
             /\ last.op = "arrays_delivered"
             /\ last.model = last'.model
             /\ plots'[last'.model].scene = last.scene
             /\ plots'[last'.model].arrays = plots[last'.model].arrays
             /\ contexts' = contexts]_vars

C14_Witness ==
    /\ last.op = "arrays_delivered"
    /\ last.scene.arrays \ plots[last.model].scene.arrays # {}
    /\ last.scene.arrays \ DOMAIN plots[last.model].arrays # {}
    /\ last.scene.arrays \subseteq
          DOMAIN plots[last.model].arrays \cup plots[last.model].arrays_processed

====
